---- MODULE Spec2Model ----
(***************************************************************************)
(* Agent Builder: the configuration store of a builder thread, its schema  *)
(* validation, the write / update / read tools of AgentConfigMiddleware,   *)
(* and the session logic of app.py that decides when the entrance agent    *)
(* is (re)created from the stored configuration.                           *)
(*                                                                         *)
(* Python values are modelled as follows.                                  *)
(*   str        a TLA+ string, its length taken with Len                   *)
(*   dict       a function whose DOMAIN is the set of keys present         *)
(*   list       a sequence                                                 *)
(*   None       the record NoneValue                                       *)
(*   AgentConfig / raw dict in the store: a record tagged by kind, whose   *)
(*              data field is what model_dump() gives for an AgentConfig   *)
(*              and the raw mapping for a dict.                            *)
(***************************************************************************)
EXTENDS Integers, Sequences, FiniteSets, TLC

VARIABLES
    agent_config,               \* thread state slot agent_config
    mock_conversations,         \* thread state slot mock_conversations
    interrupts,                 \* the thread has a pending interrupt
    pc,                         \* "idle" or "stream" (agent.stream is running)
    last_op,                    \* the tool or handler that acted last
    last_input,                 \* the mapping the last write / update call was given
    last_result,                \* what the last tool call returned
    st_agent_config,            \* st.session_state.agent_config
    st_mock_conversations,      \* st.session_state.mock_conversations
    entrance_agent,             \* st.session_state.entrance_agent
    builder_waiting_interrupt,  \* st.session_state.builder_waiting_interrupt
    pending_builder_input,      \* st.session_state.pending_builder_input is set
    created_from,               \* argument of the create_agent_from_config call
                                \* of the last step, NoneValue when it made none
    builder_notice,             \* what the last step appended to the builder
                                \* transcript about the entrance agent or an error
    entrance_messages,          \* st.session_state.entrance_messages
    pending_entrance_input,     \* st.session_state.pending_entrance_input is set
    candidate                   \* input of the schema validation run or of
                                \* the parser run

vars ==
    <<agent_config, mock_conversations, interrupts, pc, last_op, last_input, last_result,
      st_agent_config, st_mock_conversations, entrance_agent,
      builder_waiting_interrupt, pending_builder_input, created_from,
      builder_notice, entrance_messages, pending_entrance_input, candidate>>

(***************************************************************************)
(* Schema constants (models.py).                                           *)
(***************************************************************************)
NameMin == 1
NameMax == 100
DescriptionMin == 1
DescriptionMax == 500
SystemPromptMin == 10
SkillsMin == 1
SkillsMax == 1
SkillNameMin == 1
SkillNameMax == 50
WhenToUseMin == 10
WhenToUseMax == 500
SkillPromptMin == 10

(***************************************************************************)
(* Bounds of the model.                                                    *)
(***************************************************************************)
MaxSkills == 2
MaxTools == 2
MaxLines == 4
MaxEntranceMessages == 2

NoneValue == [kind |-> "None"]
EmptyDict == << >>

\* the string s repeated n times
RECURSIVE Rep(_, _)
Rep(s, n) ==
    IF n = 0 THEN ""
    ELSE LET half == Rep(s, n \div 2)
         IN  IF n % 2 = 0 THEN half \o half ELSE half \o half \o s

RECURSIVE Flatten(_)
Flatten(ss) ==
    IF ss = << >> THEN << >> ELSE Head(ss) \o Flatten(Tail(ss))

Range(s) == {s[i] : i \in DOMAIN s}

\* str(i) for a list index of an error location
IndexStr(i) ==
    <<"0", "1", "2", "3">>[i + 1]

(***************************************************************************)
(* pydantic validation of models.py: Tool, Skill, AgentConfig.  Each       *)
(* ...Errors operator gives the list of error locations, written as        *)
(* write_agent_config writes them (" -> ".join of the location).  Unknown  *)
(* keys are ignored and absent defaulted keys are filled in.               *)
(***************************************************************************)
\* StrFieldErrors with max_length not enforced
StrFieldErrorsNoMax(d, key, min, max, prefix) ==
    IF key \notin DOMAIN d THEN <<prefix \o key>>
    ELSE IF Len(d[key]) < min THEN <<prefix \o key>>
    ELSE << >>

\* a required str field with min_length (and max_length when max >= 0)
StrFieldErrors(d, key, min, max, prefix) ==
    IF key \notin DOMAIN d THEN <<prefix \o key>>
    ELSE IF Len(d[key]) < min THEN <<prefix \o key>>
    ELSE IF max >= 0 /\ Len(d[key]) > max THEN <<prefix \o key>>
    ELSE << >>

ToolErrors(t, prefix) ==
    IF "name" \notin DOMAIN t THEN <<prefix \o "name">> ELSE << >>

ToolValue(t) ==
    [name |-> t.name,
     config |-> IF "config" \in DOMAIN t THEN t.config ELSE EmptyDict]

ToolsErrors(ts, prefix) ==
    Flatten([i \in DOMAIN ts |->
        ToolErrors(ts[i], prefix \o "tools -> " \o IndexStr(i - 1) \o " -> ")])

SkillErrors(s, prefix) ==
    StrFieldErrors(s, "name", SkillNameMin, SkillNameMax, prefix)
    \o StrFieldErrors(s, "when_to_use", WhenToUseMin, WhenToUseMax, prefix)
    \o StrFieldErrors(s, "prompt", SkillPromptMin, -1, prefix)
    \o (IF "tools" \in DOMAIN s THEN ToolsErrors(s.tools, prefix) ELSE << >>)

SkillValue(s) ==
    [name |-> s.name,
     when_to_use |-> s.when_to_use,
     prompt |-> s.prompt,
     tools |-> IF "tools" \in DOMAIN s
               THEN [i \in DOMAIN s.tools |-> ToolValue(s.tools[i])]
               ELSE << >>]

\* List[Skill] with min_items / max_items: the length check against the
\* maximum ends the validation of the list at once; the items' errors are
\* reported when there are any; the minimum is checked last.
SkillsErrors(d) ==
    IF "skills" \notin DOMAIN d THEN <<"skills">>
    ELSE IF Len(d.skills) > SkillsMax THEN <<"skills">>
    ELSE LET items == Flatten([i \in DOMAIN d.skills |->
                 SkillErrors(d.skills[i], "skills -> " \o IndexStr(i - 1) \o " -> ")])
         IN  IF items # << >> THEN items
             ELSE IF Len(d.skills) < SkillsMin THEN <<"skills">>
             ELSE << >>

\* e.errors() of AgentConfig(**d), as the locations of lines 117-119
AgentConfigErrors(d) ==
    StrFieldErrors(d, "name", NameMin, NameMax, "")
    \o StrFieldErrors(d, "description", DescriptionMin, DescriptionMax, "")
    \o StrFieldErrors(d, "system_prompt", SystemPromptMin, -1, "")
    \o SkillsErrors(d)

\* AgentConfig(**d) raises ValidationError
Raises(d) ==
    AgentConfigErrors(d) # << >>

\* AgentConfig(**d).model_dump() when AgentConfig(**d) does not raise
AgentConfigValue(d) ==
    [name |-> d.name,
     description |-> d.description,
     system_prompt |-> d.system_prompt,
     skills |-> [i \in DOMAIN d.skills |-> SkillValue(d.skills[i])]]

AgentConfigObject(d) ==
    [kind |-> "AgentConfig", data |-> AgentConfigValue(d)]

DictObject(d) ==
    [kind |-> "dict", data |-> d]

(***************************************************************************)
(* Reducers of AgentConfigState (middleware/agent_config.py).              *)
(***************************************************************************)
\* MergeUpdate merging the first skill key by key instead of replacing skills
DeepMergeUpdate(current_data, new) ==
    [k \in DOMAIN current_data \cup DOMAIN new |->
        IF k \notin DOMAIN new THEN current_data[k]
        ELSE IF k = "skills" /\ k \in DOMAIN current_data
                /\ current_data[k] # << >> /\ new[k] # << >>
        THEN [new[k] EXCEPT ![1] =
                 [f \in DOMAIN current_data[k][1] \cup DOMAIN new[k][1] |->
                     IF f \in DOMAIN new[k][1] THEN new[k][1][f]
                     ELSE current_data[k][1][f]]]
        ELSE new[k]]

\* MergeUpdate extending the stored skills list by the new one
AppendingMergeUpdate(current_data, new) ==
    [k \in DOMAIN current_data \cup DOMAIN new |->
        IF k \notin DOMAIN new THEN current_data[k]
        ELSE IF k = "skills" /\ k \in DOMAIN current_data
        THEN current_data[k] \o new[k]
        ELSE new[k]]

\* {**current_data, **new}
MergeUpdate(current_data, new) ==
    [k \in DOMAIN current_data \cup DOMAIN new |->
        IF k \in DOMAIN new THEN new[k] ELSE current_data[k]]

\* agent_config_reducer keeping the stored value when the merge does not validate
RejectingReducer(old, new) ==
    IF new = NoneValue THEN old
    ELSE IF new.kind = "AgentConfig" THEN new
    ELSE LET current_data == IF old = NoneValue THEN EmptyDict ELSE old.data
             merged_data == [k \in DOMAIN current_data \cup DOMAIN new.data |->
                                IF k \in DOMAIN new.data THEN new.data[k]
                                ELSE current_data[k]]
         IN  IF Raises(merged_data) THEN old ELSE AgentConfigObject(merged_data)

\* agent_config_reducer returning old where line 23 returns new
OldReturningReducer(old, new) ==
    IF new = NoneValue THEN old
    ELSE IF new.kind = "AgentConfig" THEN old
    ELSE LET current_data == IF old = NoneValue THEN EmptyDict ELSE old.data
             merged_data == [k \in DOMAIN current_data \cup DOMAIN new.data |->
                                IF k \in DOMAIN new.data THEN new.data[k]
                                ELSE current_data[k]]
         IN  IF Raises(merged_data)
             THEN DictObject(merged_data)
             ELSE AgentConfigObject(merged_data)

\* agent_config_reducer returning the merged mapping without validating it
UnvalidatedReducer(old, new) ==
    IF new = NoneValue THEN old
    ELSE IF new.kind = "AgentConfig" THEN new
    ELSE LET current_data == IF old = NoneValue THEN EmptyDict ELSE old.data
         IN  DictObject([k \in DOMAIN current_data \cup DOMAIN new.data |->
                            IF k \in DOMAIN new.data THEN new.data[k]
                            ELSE current_data[k]])

agent_config_reducer(old, new) ==
    IF new = NoneValue THEN old
    ELSE IF new.kind = "AgentConfig" THEN new
    ELSE LET current_data == IF old = NoneValue THEN EmptyDict ELSE old.data
             merged_data == MergeUpdate(current_data, new.data)
         IN  IF Raises(merged_data)
             THEN DictObject(merged_data)
             ELSE AgentConfigObject(merged_data)

ListObject(items) ==
    [kind |-> "list", items |-> items]

mock_conversations_reducer(old, new) ==
    IF new # NoneValue THEN new
    ELSE IF old = NoneValue \/ old.items = << >> THEN ListObject(<< >>) ELSE old

(***************************************************************************)
(* The tools of AgentConfigMiddleware.  Each gives what the tool returns:  *)
(* a Command with its state update, or a plain value.                      *)
(***************************************************************************)
\* write_agent_config storing the raw mapping when the validation fails
DegradingWrite(config) ==
    IF Raises(config)
    THEN [kind |-> "Command", slot |-> "agent_config", update |-> DictObject(config)]
    ELSE [kind |-> "Command", slot |-> "agent_config",
          update |-> AgentConfigObject(config)]

write_agent_config(config) ==
    IF Raises(config)
    THEN [kind |-> "str", errors |-> AgentConfigErrors(config)]
    ELSE [kind |-> "Command", slot |-> "agent_config",
          update |-> AgentConfigObject(config)]

update_agent_config(updates) ==
    [kind |-> "Command", slot |-> "agent_config", update |-> DictObject(updates)]

read_agent_config ==
    [kind |-> "dict", data |-> EmptyDict]

(***************************************************************************)
(* parse_mock_conversations.  The text is given as its lines after         *)
(* split('\n') and strip(): a blank line, a line the role pattern matches  *)
(* (with the stripped role and content groups), or any other line.         *)
(***************************************************************************)
BlankLine == [t |-> "blank"]
RoleLine(role, content) == [t |-> "role", role |-> role, content |-> content]
TextLine(content) == [t |-> "text", content |-> content]

\* stands for the two-character localized label for "user" (U+7528 U+6237)
LocalizedUser == "yonghu"

\* Lower leaving the case of the label as it is
KeepCase(role) ==
    role

\* str.lower() on the role labels of the model
Lower(role) ==
    CASE role = "User" -> "user"
      [] role = "USER" -> "user"
      [] role = "Agent" -> "agent"
      [] OTHER -> role

RECURSIVE JoinLines(_)
JoinLines(content) ==
    IF Len(content) = 1 THEN content[1]
    ELSE content[1] \o "\n" \o JoinLines(Tail(content))

\* lines 218-223, 232-236, 246-250: the message of the open turn
TurnMessage(current_role, current_content) ==
    [type |-> IF Lower(current_role[1]) \in {"user", LocalizedUser}
              THEN "human" ELSE "ai",
     content |-> JoinLines(current_content)]

\* "current_role and current_content"; current_role is << >> for None and
\* <<role>> for a str, current_content a list
TurnOpen(current_role, current_content) ==
    /\ current_role # << >>
    /\ current_role[1] # ""
    /\ current_content # << >>

\* ParseLine opening an agent turn on a text line that follows no role line
AgentByDefaultParseLine(st, line) ==
    IF line.t = "blank"
    THEN IF TurnOpen(st.current_role, st.current_content)
         THEN [st EXCEPT
                 !.messages = Append(@, TurnMessage(st.current_role, st.current_content)),
                 !.current_content = << >>]
         ELSE st
    ELSE IF line.t = "role"
    THEN [messages |-> IF TurnOpen(st.current_role, st.current_content)
                       THEN Append(st.messages,
                                   TurnMessage(st.current_role, st.current_content))
                       ELSE st.messages,
          current_role |-> <<line.role>>,
          current_content |-> <<line.content>>]
    ELSE IF st.current_role # << >> /\ st.current_role[1] # ""
         THEN [st EXCEPT !.current_content = Append(@, line.content)]
         ELSE [st EXCEPT !.current_role = <<"Agent">>,
                         !.current_content = <<line.content>>]

\* one iteration of the loop over the lines
ParseLine(st, line) ==
    IF line.t = "blank"
    THEN IF TurnOpen(st.current_role, st.current_content)
         THEN [st EXCEPT
                 !.messages = Append(@, TurnMessage(st.current_role, st.current_content)),
                 !.current_content = << >>]
         ELSE st
    ELSE IF line.t = "role"
    THEN [messages |-> IF TurnOpen(st.current_role, st.current_content)
                       THEN Append(st.messages,
                                   TurnMessage(st.current_role, st.current_content))
                       ELSE st.messages,
          current_role |-> <<line.role>>,
          current_content |-> <<line.content>>]
    ELSE IF st.current_role # << >> /\ st.current_role[1] # ""
         THEN [st EXCEPT !.current_content = Append(@, line.content)]
         ELSE st

RECURSIVE ParseLines(_, _)
ParseLines(st, lines) ==
    IF lines = << >> THEN st
    ELSE ParseLines(ParseLine(st, Head(lines)), Tail(lines))

\* parse_mock_conversations without lines 244-250
ParseWithoutFlush(lines) ==
    ParseLines([messages |-> << >>, current_role |-> << >>,
                current_content |-> << >>], lines).messages

parse_mock_conversations(lines) ==
    LET st == ParseLines([messages |-> << >>, current_role |-> << >>,
                          current_content |-> << >>], lines)
    IN  IF TurnOpen(st.current_role, st.current_content)
        THEN Append(st.messages, TurnMessage(st.current_role, st.current_content))
        ELSE st.messages

update_mock_conversation(conversation) ==
    [kind |-> "Command", slot |-> "mock_conversations",
     update |-> ListObject(parse_mock_conversations(conversation))]

(***************************************************************************)
(* update_state_from_agent (app.py).                                       *)
(***************************************************************************)
\* truth value of state.values.get("agent_config"): None and {} are false
HasAgentConfig(value) ==
    /\ value # NoneValue
    /\ ~(value.kind = "dict" /\ DOMAIN value.data = {})

\* config_changed reporting a change at every check
AlwaysChanged(old_config, new_config) ==
    TRUE

\* lines 388-400: old_config_dict is None or old_config_dict != new_config_dict
config_changed(old_config, new_config) ==
    \/ old_config = NoneValue
    \/ old_config.data # new_config.data

\* lines 461-464
MockDisplay(mock_conv) ==
    [i \in DOMAIN mock_conv |->
        [role |-> IF mock_conv[i].type = "human" THEN "User" ELSE "Agent",
         content |-> mock_conv[i].content]]

\* InstalledAgent losing the installed agent when the creation raises
DroppingInstalledAgent(created) ==
    IF created THEN [config |-> agent_config] ELSE NoneValue

\* lines 430-434 and 447: st.session_state.entrance_agent after the call;
\* created: create_agent_from_config returns (TRUE) or raises (FALSE)
InstalledAgent(created) ==
    IF created THEN [config |-> agent_config] ELSE entrance_agent

\* EntranceMessagesAfter never clearing the chat
KeptEntranceMessages(created) ==
    entrance_messages

\* lines 432 and 437-439: the chat is cleared when an agent is recreated
EntranceMessagesAfter(created) ==
    IF created /\ entrance_agent # NoneValue THEN << >> ELSE entrance_messages

\* lines 441-445 and 449-452: the system message about the entrance agent
BuilderNotice(created) ==
    IF ~created THEN "failed"
    ELSE IF entrance_agent = NoneValue THEN "created" ELSE "updated"

update_state_from_agent(created) ==
    /\ IF HasAgentConfig(agent_config)
       THEN /\ st_agent_config' = agent_config
            /\ IF config_changed(st_agent_config, agent_config)
               THEN /\ created_from' = agent_config
                    /\ entrance_agent' = InstalledAgent(created)
                    /\ entrance_messages' = EntranceMessagesAfter(created)
                    /\ builder_notice' = BuilderNotice(created)
               ELSE /\ created_from' = NoneValue
                    /\ entrance_agent' = entrance_agent
                    /\ entrance_messages' = entrance_messages
                    /\ builder_notice' = "none"
       ELSE /\ st_agent_config' = st_agent_config
            /\ created_from' = NoneValue
            /\ entrance_agent' = entrance_agent
            /\ entrance_messages' = entrance_messages
            /\ builder_notice' = "none"
    /\ st_mock_conversations' =
          IF mock_conversations # NoneValue /\ Len(mock_conversations.items) > 0
          THEN MockDisplay(mock_conversations.items)
          ELSE st_mock_conversations

(***************************************************************************)
(* Inputs of the model.                                                    *)
(***************************************************************************)
BookingSkill ==
    [name |-> "Booking",
     when_to_use |-> "When user wants to book a room for more than ten characters",
     prompt |-> "Help the user book a room."]

SmsSkill ==
    [name |-> "Booking",
     when_to_use |-> "When user wants to book a room for more than ten characters",
     prompt |-> "Help the user book a room.",
     tools |-> <<[name |-> "send_sms"]>>]

PartialSkill ==
    [name |-> "Booking"]

\* the mappings with at most the key k, its value drawn from values
Field(k, values) ==
    {EmptyDict} \cup {k :> v : v \in values}

\* the mappings a tool call may carry: every choice of keys and values
Mappings ==
    {n @@ d @@ p @@ s @@ x :
        n \in Field("name", {"Hotel Agent"}),
        d \in Field("description", {"Books hotel rooms"}),
        p \in Field("system_prompt", {"You are a booking assistant."}),
        s \in Field("skills", {<<BookingSkill>>, <<SmsSkill>>, <<PartialSkill>>}),
        x \in Field("note", {"x"})}

HotelAgent ==
    [name |-> "Hotel Agent",
     description |-> "Books hotel rooms",
     system_prompt |-> "You are a booking assistant.",
     skills |-> <<BookingSkill @@ [tools |-> << >>]>>]

\* the mappings of the turns of a building session: nothing, the name, the
\* rest, the whole configuration, the same with another skill, and a partial
\* skill with a stray key
TurnMappings ==
    {EmptyDict,
     [name |-> "Hotel Agent"],
     [description |-> "Books hotel rooms",
      system_prompt |-> "You are a booking assistant.",
      skills |-> <<BookingSkill>>],
     HotelAgent,
     [skills |-> <<SmsSkill>>] @@ HotelAgent,
     [skills |-> <<PartialSkill>>, note |-> "x"]}

MockTexts ==
    {<<TextLine("# Mock Conversations"), BlankLine>>,
     <<RoleLine("User", "Hi"), RoleLine("Agent", "Hello"), BlankLine>>}

(***************************************************************************)
(* Actions.                                                                *)
(***************************************************************************)
NoResult == [kind |-> "None"]

SessionVars ==
    <<st_agent_config, st_mock_conversations, entrance_agent,
      builder_waiting_interrupt, pending_builder_input,
      entrance_messages, pending_entrance_input>>

\* lines 548-552: the form is submitted
SubmitBuilderInput ==
    /\ pc = "idle"
    /\ ~pending_builder_input
    /\ ~pending_entrance_input
    /\ pending_builder_input' = TRUE
    /\ last_op' = "submit"
    /\ last_input' = NoneValue
    /\ last_result' = NoResult
    /\ created_from' = NoneValue
    /\ builder_notice' = "none"
    /\ UNCHANGED <<agent_config, mock_conversations, interrupts, pc,
                   st_agent_config, st_mock_conversations, entrance_agent,
                   builder_waiting_interrupt, entrance_messages,
                   pending_entrance_input, candidate>>

\* process_builder_message delivering every input as a new message
AlwaysNewTurn ==
    "process"

\* lines 200 and 217: the input resumes the suspended turn or starts a new one
TurnKind ==
    IF builder_waiting_interrupt THEN "resume" ELSE "process"

\* process_builder_message entered while a stream runs, the input left pending
ProcessWhileStreaming ==
    /\ pending_builder_input
    /\ pc' = "stream"
    /\ last_op' = TurnKind
    /\ last_input' = NoneValue
    /\ last_result' = NoResult
    /\ created_from' = NoneValue
    /\ builder_notice' = "none"
    /\ UNCHANGED <<agent_config, mock_conversations, interrupts,
                   SessionVars, candidate>>

\* lines 578-583 and 193-230: the pending input is taken and the stream starts
\* (as a resume when builder_waiting_interrupt, as a new message otherwise)
ProcessBuilderMessage ==
    /\ pc = "idle"
    /\ pending_builder_input
    /\ pending_builder_input' = FALSE
    /\ pc' = "stream"
    /\ last_op' = TurnKind
    /\ last_input' = NoneValue
    /\ last_result' = NoResult
    /\ created_from' = NoneValue
    /\ builder_notice' = "none"
    /\ UNCHANGED <<agent_config, mock_conversations, interrupts,
                   st_agent_config, st_mock_conversations, entrance_agent,
                   builder_waiting_interrupt, entrance_messages,
                   pending_entrance_input, candidate>>

\* the value of a slot after a tool returned result: a Command is applied
\* through the reducer of the slot it names, a plain value changes no slot
AgentConfigAfter(result) ==
    IF result.kind = "Command" /\ result.slot = "agent_config"
    THEN agent_config_reducer(agent_config, result.update)
    ELSE agent_config

MockConversationsAfter(result) ==
    IF result.kind = "Command" /\ result.slot = "mock_conversations"
    THEN mock_conversations_reducer(mock_conversations, result.update)
    ELSE mock_conversations

\* what the caller of the tool receives
Returned(result) ==
    IF result.kind = "Command" THEN [kind |-> "Command"] ELSE result

WriteAgentConfig(config) ==
    /\ pc = "stream"
    /\ last_op' = "write"
    /\ last_input' = config
    /\ last_result' = Returned(write_agent_config(config))
    /\ agent_config' = AgentConfigAfter(write_agent_config(config))
    /\ mock_conversations' = MockConversationsAfter(write_agent_config(config))
    /\ created_from' = NoneValue
    /\ builder_notice' = "none"
    /\ UNCHANGED <<interrupts, pc, SessionVars, candidate>>

UpdateAgentConfig(updates) ==
    /\ pc = "stream"
    /\ last_op' = "update"
    /\ last_input' = updates
    /\ last_result' = Returned(update_agent_config(updates))
    /\ agent_config' = AgentConfigAfter(update_agent_config(updates))
    /\ mock_conversations' = MockConversationsAfter(update_agent_config(updates))
    /\ created_from' = NoneValue
    /\ builder_notice' = "none"
    /\ UNCHANGED <<interrupts, pc, SessionVars, candidate>>

ReadAgentConfig ==
    /\ pc = "stream"
    /\ last_op' = "read"
    /\ last_input' = NoneValue
    /\ last_result' = Returned(read_agent_config)
    /\ agent_config' = AgentConfigAfter(read_agent_config)
    /\ mock_conversations' = MockConversationsAfter(read_agent_config)
    /\ created_from' = NoneValue
    /\ builder_notice' = "none"
    /\ UNCHANGED <<interrupts, pc, SessionVars, candidate>>

UpdateMockConversation(conversation) ==
    /\ pc = "stream"
    /\ last_op' = "mock"
    /\ last_input' = NoneValue
    /\ last_result' = Returned(update_mock_conversation(conversation))
    /\ agent_config' = AgentConfigAfter(update_mock_conversation(conversation))
    /\ mock_conversations' =
          MockConversationsAfter(update_mock_conversation(conversation))
    /\ created_from' = NoneValue
    /\ builder_notice' = "none"
    /\ UNCHANGED <<interrupts, pc, SessionVars, candidate>>

\* lines 215-216 and 232-295: the stream ended, normally or on the interrupt of
\* ask_user_to_provide_info (tools.py lines 27-32)
StreamEnds(has_interrupt, created) ==
    /\ pc = "stream"
    /\ pc' = "idle"
    /\ interrupts' = has_interrupt
    /\ update_state_from_agent(created)
    /\ builder_waiting_interrupt' = has_interrupt
    /\ last_op' = IF has_interrupt THEN "interrupt" ELSE "complete"
    /\ last_input' = NoneValue
    /\ last_result' = NoResult
    /\ UNCHANGED <<agent_config, mock_conversations,
                   pending_builder_input, pending_entrance_input, candidate>>

\* lines 297-299: the stream raised; the updates committed so far stay in the
\* thread, the session is not refreshed
StreamRaises(still_interrupted) ==
    /\ pc = "stream"
    /\ pc' = "idle"
    /\ interrupts' = (interrupts /\ still_interrupted)
    /\ last_op' = "error"
    /\ last_input' = NoneValue
    /\ last_result' = NoResult
    /\ created_from' = NoneValue
    /\ builder_notice' = "error"
    /\ UNCHANGED <<agent_config, mock_conversations, SessionVars, candidate>>

\* lines 556-564: a fresh thread id, whose thread state is empty
RestartBuilder ==
    /\ pc = "idle"
    /\ pending_builder_input' = FALSE
    /\ builder_waiting_interrupt' = FALSE
    /\ agent_config' = NoneValue
    /\ mock_conversations' = NoneValue
    /\ interrupts' = FALSE
    /\ last_op' = "restart"
    /\ last_input' = NoneValue
    /\ last_result' = NoResult
    /\ created_from' = NoneValue
    /\ builder_notice' = "none"
    /\ UNCHANGED <<pc, st_agent_config, st_mock_conversations,
                   entrance_agent, entrance_messages, pending_entrance_input,
                   candidate>>

\* lines 626-638: the entrance form is submitted (the form is disabled while
\* there is no entrance agent)
SubmitEntranceInput ==
    /\ pc = "idle"
    /\ entrance_agent # NoneValue
    /\ ~pending_builder_input
    /\ ~pending_entrance_input
    /\ Len(entrance_messages) < MaxEntranceMessages
    /\ entrance_messages' = Append(entrance_messages, [role |-> "user", content |-> "text"])
    /\ pending_entrance_input' = TRUE
    /\ last_op' = "submit_entrance"
    /\ last_input' = NoneValue
    /\ last_result' = NoResult
    /\ created_from' = NoneValue
    /\ builder_notice' = "none"
    /\ UNCHANGED <<agent_config, mock_conversations, interrupts, pc,
                   st_agent_config, st_mock_conversations, entrance_agent,
                   builder_waiting_interrupt, pending_builder_input, candidate>>

\* lines 651-655 and 480-501: the pending entrance input is given to the
\* entrance agent; answered: invoke returns (TRUE) or raises (FALSE)
ProcessEntranceMessage(answered) ==
    /\ pc = "idle"
    /\ pending_entrance_input
    /\ pending_entrance_input' = FALSE
    /\ entrance_messages' =
          IF entrance_agent = NoneValue THEN entrance_messages
          ELSE Append(entrance_messages,
                      [role |-> "assistant",
                       content |-> IF answered THEN "text" ELSE "error"])
    /\ last_op' = "process_entrance"
    /\ last_input' = NoneValue
    /\ last_result' = NoResult
    /\ created_from' = NoneValue
    /\ builder_notice' = "none"
    /\ UNCHANGED <<agent_config, mock_conversations, interrupts, pc,
                   st_agent_config, st_mock_conversations, entrance_agent,
                   builder_waiting_interrupt, pending_builder_input, candidate>>

\* lines 640-649: the entrance chat is restarted
RestartEntrance ==
    /\ pc = "idle"
    /\ entrance_agent # NoneValue
    /\ entrance_messages' = << >>
    /\ pending_entrance_input' = FALSE
    /\ last_op' = "restart_entrance"
    /\ last_input' = NoneValue
    /\ last_result' = NoResult
    /\ created_from' = NoneValue
    /\ builder_notice' = "none"
    /\ UNCHANGED <<agent_config, mock_conversations, interrupts, pc,
                   st_agent_config, st_mock_conversations, entrance_agent,
                   builder_waiting_interrupt, pending_builder_input, candidate>>

Init ==
    /\ agent_config = NoneValue
    /\ mock_conversations = NoneValue
    /\ interrupts = FALSE
    /\ pc = "idle"
    /\ last_op = "none"
    /\ last_input = NoneValue
    /\ last_result = NoResult
    /\ st_agent_config = NoneValue
    /\ st_mock_conversations = << >>
    /\ entrance_agent = NoneValue
    /\ builder_waiting_interrupt = FALSE
    /\ pending_builder_input = FALSE
    /\ created_from = NoneValue
    /\ builder_notice = "none"
    /\ entrance_messages = << >>
    /\ pending_entrance_input = FALSE
    /\ candidate = EmptyDict

\* the tool calls of a running turn, their arguments drawn from inputs
ToolCalls(inputs) ==
    \/ \E config \in inputs : WriteAgentConfig(config)
    \/ \E updates \in inputs : UpdateAgentConfig(updates)
    \/ ReadAgentConfig
    \/ \E conversation \in MockTexts : UpdateMockConversation(conversation)

Next ==
    \/ SubmitBuilderInput
    \/ ProcessBuilderMessage
    \/ ToolCalls(TurnMappings)
    \/ \E has_interrupt \in BOOLEAN, created \in BOOLEAN :
          StreamEnds(has_interrupt, created)
    \/ \E still_interrupted \in BOOLEAN : StreamRaises(still_interrupted)
    \/ RestartBuilder

Spec == Init /\ [][Next]_vars

\* the thread store under the tools alone, over every mapping, in turns whose
\* end does not refresh the session
StoreNext ==
    \/ SubmitBuilderInput
    \/ ProcessBuilderMessage
    \/ ToolCalls(Mappings)
    \/ \E still_interrupted \in BOOLEAN : StreamRaises(still_interrupted)
    \/ RestartBuilder

StoreSpec == Init /\ [][StoreNext]_vars

\* the mappings of the turns of a session with an entrance chat: a partial
\* configuration and a whole one
ChatMappings ==
    {[name |-> "Hotel Agent"], HotelAgent}

\* the building session together with the chat with the entrance agent
ChatNext ==
    \/ SubmitBuilderInput
    \/ ProcessBuilderMessage
    \/ ToolCalls(ChatMappings)
    \/ \E has_interrupt \in BOOLEAN, created \in BOOLEAN :
          StreamEnds(has_interrupt, created)
    \/ \E still_interrupted \in BOOLEAN : StreamRaises(still_interrupted)
    \/ RestartBuilder
    \/ SubmitEntranceInput
    \/ \E answered \in BOOLEAN : ProcessEntranceMessage(answered)
    \/ RestartEntrance

ChatSpec == Init /\ [][ChatNext]_vars

(***************************************************************************)
(* Schema validation on its own: write_agent_config applied once to a      *)
(* candidate drawn from the mappings around every bound of the schema.     *)
(***************************************************************************)
\* strings of the lengths around the bounds of a str field (max < 0: no maximum)
BoundaryStrings(min, max) ==
    {Rep("a", n) : n \in {min - 1, min} \cup (IF max < 0 THEN {} ELSE {max, max + 1})}

\* the sequences over S of lengths lo..hi
SeqsOver(S, lo, hi) ==
    UNION {[1..n -> S] : n \in lo..hi}

CandidateTools ==
    {[name |-> "send_sms"], [config |-> EmptyDict]}

CandidateSkills ==
    {n @@ w @@ p @@ t :
        n \in Field("name", BoundaryStrings(SkillNameMin, SkillNameMax)),
        w \in Field("when_to_use", BoundaryStrings(WhenToUseMin, WhenToUseMax)),
        p \in Field("prompt", BoundaryStrings(SkillPromptMin, -1)),
        t \in Field("tools", SeqsOver(CandidateTools, 0, MaxTools))}

\* lists of several skills are drawn from a valid skill and one with two
\* fields out of bounds
SeveralSkills ==
    SeqsOver({BookingSkill, [name |-> "", when_to_use |-> "short",
                             prompt |-> "Help the user book a room."]},
             2, MaxSkills)

Candidates ==
    {n @@ d @@ p @@ s :
        n \in Field("name", BoundaryStrings(NameMin, NameMax)),
        d \in Field("description", BoundaryStrings(DescriptionMin, DescriptionMax)),
        p \in Field("system_prompt", BoundaryStrings(SystemPromptMin, -1)),
        s \in Field("skills", SeqsOver(CandidateSkills, 0, 1) \cup SeveralSkills)}

ValidateInit ==
    /\ candidate \in Candidates
    /\ agent_config = NoneValue
    /\ mock_conversations = NoneValue
    /\ interrupts = FALSE
    /\ pc = "stream"
    /\ last_op = "process"
    /\ last_input = NoneValue
    /\ last_result = NoResult
    /\ st_agent_config = NoneValue
    /\ st_mock_conversations = << >>
    /\ entrance_agent = NoneValue
    /\ builder_waiting_interrupt = FALSE
    /\ pending_builder_input = FALSE
    /\ created_from = NoneValue
    /\ builder_notice = "none"
    /\ entrance_messages = << >>
    /\ pending_entrance_input = FALSE

ValidateCandidate ==
    /\ last_op = "process"
    /\ WriteAgentConfig(candidate)

ValidateNext ==
    ValidateCandidate

ValidateSpec == ValidateInit /\ [][ValidateNext]_vars

(***************************************************************************)
(* The parser on its own: update_mock_conversation applied once to a text  *)
(* of at most MaxLines lines.                                              *)
(***************************************************************************)
RoleLabels ==
    {"User", "USER", "Bot", LocalizedUser, ""}

LineAlphabet ==
    {BlankLine, TextLine("more")}
    \cup {RoleLine(role, content) : role \in RoleLabels, content \in {"Hi", ""}}

Conversations ==
    SeqsOver(LineAlphabet, 0, MaxLines)

ParseInit ==
    /\ candidate \in Conversations
    /\ agent_config = NoneValue
    /\ mock_conversations = NoneValue
    /\ interrupts = FALSE
    /\ pc = "stream"
    /\ last_op = "process"
    /\ last_input = NoneValue
    /\ last_result = NoResult
    /\ st_agent_config = NoneValue
    /\ st_mock_conversations = << >>
    /\ entrance_agent = NoneValue
    /\ builder_waiting_interrupt = FALSE
    /\ pending_builder_input = FALSE
    /\ created_from = NoneValue
    /\ builder_notice = "none"
    /\ entrance_messages = << >>
    /\ pending_entrance_input = FALSE

ParseConversation ==
    /\ last_op = "process"
    /\ UpdateMockConversation(candidate)

ParseNext ==
    ParseConversation

ParseSpec == ParseInit /\ [][ParseNext]_vars

(***************************************************************************)
(* The schema as the specification words it, independent of the operators  *)
(* that model the validation above.                                        *)
(***************************************************************************)
HasStr(d, k, lo, hi) ==
    k \in DOMAIN d /\ Len(d[k]) >= lo /\ Len(d[k]) <= hi

HasStrFrom(d, k, lo) ==
    k \in DOMAIN d /\ Len(d[k]) >= lo

\* the length and cardinality constraints on the agent and its one skill
LengthsAndCardinality(c) ==
    /\ HasStr(c, "name", 1, 100)
    /\ HasStr(c, "description", 1, 500)
    /\ HasStrFrom(c, "system_prompt", 10)
    /\ "skills" \in DOMAIN c
    /\ Len(c.skills) = 1
    /\ HasStr(c.skills[1], "name", 1, 50)
    /\ HasStr(c.skills[1], "when_to_use", 10, 500)
    /\ HasStrFrom(c.skills[1], "prompt", 10)

\* every tool binding of the skill names its tool
ToolsNamed(skill) ==
    "tools" \in DOMAIN skill =>
        \A j \in DOMAIN skill.tools : "name" \in DOMAIN skill.tools[j]

SatisfiesSchema(c) ==
    LengthsAndCardinality(c) /\ ToolsNamed(c.skills[1])

When(condition, x) ==
    IF condition THEN {x} ELSE {}

\* the locations of the fields of a skill that break their constraint
ViolatedSkillFields(skill, prefix) ==
    When(~HasStr(skill, "name", 1, 50), prefix \o "name")
    \cup When(~HasStr(skill, "when_to_use", 10, 500), prefix \o "when_to_use")
    \cup When(~HasStrFrom(skill, "prompt", 10), prefix \o "prompt")
    \cup (IF "tools" \in DOMAIN skill
          THEN {prefix \o "tools -> " \o IndexStr(j - 1) \o " -> name" :
                   j \in {j \in DOMAIN skill.tools : "name" \notin DOMAIN skill.tools[j]}}
          ELSE {})

\* the locations of the fields of c that break their constraint
ViolatedFields(c) ==
    When(~HasStr(c, "name", 1, 100), "name")
    \cup When(~HasStr(c, "description", 1, 500), "description")
    \cup When(~HasStrFrom(c, "system_prompt", 10), "system_prompt")
    \cup (IF "skills" \notin DOMAIN c THEN {"skills"}
          ELSE When(Len(c.skills) # 1, "skills")
               \cup UNION {ViolatedSkillFields(c.skills[i],
                               "skills -> " \o IndexStr(i - 1) \o " -> ") :
                           i \in DOMAIN c.skills})

\* the content of a store value, for structural comparison
ContentOf(value) ==
    IF value = NoneValue THEN NoneValue ELSE value.data

SchemaKeys == {"name", "description", "system_prompt", "skills"}

\* the top-level overlay of patch on the content of a store value
Overlay(stored, patch) ==
    LET previous == IF stored = NoneValue THEN EmptyDict ELSE stored.data
    IN  [k \in DOMAIN previous \cup DOMAIN patch |->
            IF k \in DOMAIN patch THEN patch[k] ELSE previous[k]]

\* a skill list with the defaults of absent optional keys filled in
WithDefaults(skills) ==
    [i \in DOMAIN skills |-> SkillValue(skills[i])]

(***************************************************************************)
(* Properties of the configuration store (StoreSpec).                      *)
(***************************************************************************)
\* C1: update(patch) never rejects and never signals an error, whatever the
\* store holds: the tool returns a Command, the turn goes on, and the store
\* then holds the validated AgentConfig of the merged mapping when the merged
\* mapping satisfies the schema and the raw merged mapping otherwise.
C1_UpdateNeverRejects ==
    [][LET patch == last_input' IN
          UpdateAgentConfig(patch) =>
              /\ last_result'.kind = "Command"
              /\ pc' = "stream"
              /\ IF SatisfiesSchema(Overlay(agent_config, patch))
                 THEN /\ agent_config'.kind = "AgentConfig"
                      /\ \A k \in SchemaKeys \ {"skills"} :
                            agent_config'.data[k] = Overlay(agent_config, patch)[k]
                      /\ agent_config'.data.skills =
                            WithDefaults(Overlay(agent_config, patch).skills)
                 ELSE agent_config' = [kind |-> "dict",
                                       data |-> Overlay(agent_config, patch)]]_vars

\* an update has left a raw partial mapping that holds all four schema keys
\* and still fails the schema
C1_Witness ==
    /\ last_op = "update"
    /\ last_result.kind = "Command"
    /\ agent_config.kind = "dict"
    /\ SchemaKeys \subseteq DOMAIN agent_config.data

\* a value of the store equals a value of a patch, the defaults of a skill
\* list filled in or not
SameValue(k, stored, given) ==
    \/ stored = given
    \/ /\ k = "skills"
       /\ \A i \in DOMAIN given :
             /\ {"name", "when_to_use", "prompt"} \subseteq DOMAIN given[i]
             /\ DOMAIN given[i] \subseteq {"name", "when_to_use", "prompt", "tools"}
             /\ ToolsNamed(given[i])
       /\ stored = WithDefaults(given)

\* C2 as stated: after update(patch) every top-level key of the patch has the
\* patch's value and every top-level key of the previous value that the patch
\* does not mention is still present with its previous value.
C2_OverlayKeepsEveryKey ==
    [][LET patch == last_input' IN
          UpdateAgentConfig(patch) =>
              /\ \A k \in DOMAIN patch :
                    /\ k \in DOMAIN agent_config'.data
                    /\ SameValue(k, agent_config'.data[k], patch[k])
              /\ \A k \in DOMAIN ContentOf(agent_config) \ DOMAIN patch :
                    /\ k \in DOMAIN agent_config'.data
                    /\ SameValue(k, agent_config'.data[k], agent_config.data[k])]_vars

\* C2, amended: update(patch) is a top-level overlay on the keys of the
\* schema: each schema key of the patch has the patch's value (skills taken
\* wholesale from the patch, never merged with the stored skills) and each
\* schema key the patch does not mention keeps its previous value.  A key
\* outside the schema is overlaid in the same way while the result is a
\* partial mapping and is dropped once the result validates.
C2_OverlayOnSchemaKeys ==
    [][LET patch == last_input' IN
          UpdateAgentConfig(patch) =>
              /\ \A k \in DOMAIN patch \cap SchemaKeys :
                    /\ k \in DOMAIN agent_config'.data
                    /\ SameValue(k, agent_config'.data[k], patch[k])
              /\ \A k \in (DOMAIN ContentOf(agent_config) \cap SchemaKeys)
                              \ DOMAIN patch :
                    /\ k \in DOMAIN agent_config'.data
                    /\ SameValue(k, agent_config'.data[k], agent_config.data[k])
              /\ IF agent_config'.kind = "dict"
                 THEN agent_config'.data = Overlay(agent_config, patch)
                 ELSE DOMAIN agent_config'.data = SchemaKeys]_vars

\* two updates have left a partial mapping with both the name and the
\* description set and no skills yet
C2_Witness ==
    /\ last_op = "update"
    /\ agent_config.kind = "dict"
    /\ DOMAIN agent_config.data = {"name", "description"}
    /\ agent_config.data.name = "Hotel Agent"
    /\ agent_config.data.description = "Books hotel rooms"

\* C3: a successful write(candidate) is a full replace: whatever the store
\* held, it then holds the validated candidate alone, with the four schema
\* fields of the candidate and nothing of the previous value.
C3_WriteReplaces ==
    [][LET config == last_input' IN
          (WriteAgentConfig(config) /\ last_result'.kind = "Command") =>
              /\ agent_config'.kind = "AgentConfig"
              /\ DOMAIN agent_config'.data = SchemaKeys
              /\ \A k \in SchemaKeys \ {"skills"} : agent_config'.data[k] = config[k]
              /\ agent_config'.data.skills = WithDefaults(config.skills)]_vars

\* a write has succeeded and the store holds the configuration with the
\* skill that binds a tool
C3_Witness ==
    /\ last_op = "write"
    /\ last_result.kind = "Command"
    /\ agent_config.kind = "AgentConfig"
    /\ agent_config.data.skills[1].tools # << >>

\* C4: a write(candidate) that fails the validation leaves the stored config
\* and the stored mock conversation as they were and hands the validation
\* errors back as an ordinary value: the turn goes on.
C4_FailedWriteLeavesStore ==
    [][LET config == last_input' IN
          (WriteAgentConfig(config) /\ ~SatisfiesSchema(config)) =>
              /\ agent_config' = agent_config
              /\ mock_conversations' = mock_conversations
              /\ last_result'.kind = "str"
              /\ last_result'.errors # << >>
              /\ pc' = "stream"]_vars

\* a write has failed while the store held a validated configuration and a
\* parsed mock conversation
C4_Witness ==
    /\ last_op = "write"
    /\ last_result.kind = "str"
    /\ agent_config.kind = "AgentConfig"
    /\ mock_conversations # NoneValue
    /\ mock_conversations.items # << >>

\* C8: update is idempotent for a patch that alone satisfies the schema:
\* applying the patch again to the store it has just produced leaves the
\* store as it is.
C8_UpdateIdempotent ==
    [][LET patch == last_input' IN
          (UpdateAgentConfig(patch) /\ SatisfiesSchema(patch)) =>
              agent_config_reducer(agent_config', update_agent_config(patch).update)
                  = agent_config']_vars

\* an update with a patch that is valid on its own has acted on a store
\* and left the validated configuration of the patch
C8_Witness ==
    /\ last_op = "update"
    /\ agent_config.kind = "AgentConfig"
    /\ SatisfiesSchema(last_input)
    /\ "note" \in DOMAIN last_input
    /\ agent_config.data.skills = WithDefaults(last_input.skills)

(***************************************************************************)
(* Properties of the schema validation (ValidateSpec).                     *)
(***************************************************************************)
\* the validation of the candidate yielded an AgentConfig
YieldedConfig ==
    /\ last_result.kind = "Command"
    /\ agent_config.kind = "AgentConfig"

\* the validation of the candidate yielded a non-empty error list
YieldedErrors ==
    /\ last_result.kind = "str"
    /\ last_result.errors # << >>
    /\ agent_config = NoneValue

C7_EveryViolationReported ==
    (last_op = "write" /\ last_result.kind = "str") =>
        /\ Range(last_result.errors) = ViolatedFields(candidate)
        /\ Len(last_result.errors) = Cardinality(ViolatedFields(candidate))

(***************************************************************************)
(* Properties of the building session (Spec).                              *)
(***************************************************************************)
\* C5: read() returns the value the store holds, empty when nothing was
\* stored.
C5_ReadReturnsStore ==
    last_op = "read" =>
        last_result.data = (IF agent_config = NoneValue THEN EmptyDict
                            ELSE agent_config.data)

\* C9: create_agent_from_config is only ever called with a validated
\* AgentConfig, never with a partial mapping.
C9_CreatedFromValidated ==
    created_from # NoneValue => created_from.kind = "AgentConfig"

\* the stored config differs from the one the session saw at its last check
DiffersFromSeen ==
    \/ st_agent_config = NoneValue
    \/ st_agent_config.data # agent_config.data

\* C10 as stated: at the end of a builder turn create_agent_from_config is
\* called iff the stored config differs structurally from the config seen at
\* the previous check, or none was seen.
C10_InvokedIffChanged ==
    [][(pc = "stream" /\ pc' = "idle") =>
          (created_from' # NoneValue
              <=> (agent_config # NoneValue /\ DiffersFromSeen))]_vars

\* C10, amended: at the end of a builder turn that did not raise,
\* create_agent_from_config is called iff the store holds a non-empty config
\* that differs structurally from the config seen at the previous check, or
\* none was seen; it is called at no other step, so turns that leave the
\* config structurally equal do not call it again.
C10_InvokedOncePerChange ==
    [][IF last_op' \in {"complete", "interrupt"}
       THEN created_from' # NoneValue
               <=> /\ agent_config # NoneValue
                   /\ DOMAIN agent_config.data # {}
                   /\ DiffersFromSeen
       ELSE created_from' = NoneValue]_vars

\* a turn has ended on a validated config equal to the one the session had
\* seen and used for its entrance agent, and made no call
C10_Witness ==
    /\ last_op = "complete"
    /\ created_from = NoneValue
    /\ agent_config # NoneValue
    /\ agent_config.kind = "AgentConfig"
    /\ st_agent_config = agent_config
    /\ entrance_agent # NoneValue
    /\ entrance_agent.config = agent_config

(***************************************************************************)
(* Properties of the parser (ParseSpec).                                   *)
(***************************************************************************)
NoBlankLine(lines) ==
    \A i \in DOMAIN lines : lines[i].t # "blank"

\* the contents of the text lines that lead lines, up to the first other line
RECURSIVE LeadingText(_)
LeadingText(lines) ==
    IF lines = << >> \/ Head(lines).t # "text" THEN << >>
    ELSE <<Head(lines).content>> \o LeadingText(Tail(lines))

RECURSIVE JoinedByNewline(_)
JoinedByNewline(texts) ==
    IF Len(texts) = 1 THEN texts[1]
    ELSE texts[1] \o "\n" \o JoinedByNewline(Tail(texts))

Speaker(label) ==
    IF label \in {"user", "User", "USER", LocalizedUser} THEN "human" ELSE "ai"

\* the turn of a role-marker line followed by the lines rest
TurnOf(marker, rest) ==
    [type |-> Speaker(marker.role),
     content |-> JoinedByNewline(<<marker.content>> \o LeadingText(rest))]

\* one turn per role-marker line whose label is in labelled
RECURSIVE TurnsOfMarkers(_, _)
TurnsOfMarkers(lines, labelled) ==
    IF lines = << >> THEN << >>
    ELSE IF Head(lines).t = "role" /\ Head(lines).role \in labelled
         THEN <<TurnOf(Head(lines), Tail(lines))>> \o TurnsOfMarkers(Tail(lines), labelled)
         ELSE TurnsOfMarkers(Tail(lines), labelled)

\* the parser has run on the candidate
Parsed ==
    last_op = "mock" /\ mock_conversations # NoneValue

EndsInOpenTurn(lines, m) ==
    /\ lines[m].t = "role"
    /\ lines[m].role # ""
    /\ \A i \in (m + 1)..Len(lines) : lines[i].t = "text"

HasNoMarker(lines) ==
    \A i \in DOMAIN lines : lines[i].t # "role"

\* C20: the parser has no failure mode: every input yields a sequence of
\* turns, the empty input yields the empty sequence and so does every input
\* without a role-marker line.
C20_ParserTotal ==
    (last_op = "mock") =>
        /\ last_result.kind = "Command"
        /\ mock_conversations # NoneValue
        /\ \A i \in DOMAIN mock_conversations.items :
              mock_conversations.items[i].type \in {"human", "ai"}
        /\ candidate \in {<< >>, <<BlankLine>>} => mock_conversations.items = << >>
        /\ HasNoMarker(candidate) => mock_conversations.items = << >>

\* an input of headings and blank lines without any marker has been parsed
\* into the empty sequence
C20_Witness ==
    /\ Parsed
    /\ candidate = <<TextLine("more"), BlankLine, TextLine("more"), TextLine("more")>>
    /\ mock_conversations.items = << >>

(***************************************************************************)
(* Properties of the mock conversation and of the restart.                 *)
(***************************************************************************)
\* the copy shown to the user has the turns of the stored mock conversation
ShowsStoredMock ==
    /\ Len(st_mock_conversations) = Len(mock_conversations.items)
    /\ \A i \in DOMAIN st_mock_conversations :
          /\ st_mock_conversations[i].content = mock_conversations.items[i].content
          /\ (st_mock_conversations[i].role = "User")
                <=> (mock_conversations.items[i].type = "human")

\* C13: the mock conversation is replaced unconditionally: once a turn has
\* ended, the copy shown to the user equals the stored parse of the last
\* text, the empty sequence included.
C13_MockReplaced ==
    (last_op \in {"complete", "interrupt"} /\ mock_conversations # NoneValue) =>
        ShowsStoredMock

\* C14: when the stored AgentConfig is replaced by a materially different
\* one, the mock conversation of the old configuration is cleared.
C14_MockClearedOnChange ==
    [][(/\ agent_config.kind = "AgentConfig"
        /\ agent_config'.kind = "AgentConfig"
        /\ agent_config'.data # agent_config.data) =>
           (mock_conversations' = NoneValue \/ mock_conversations'.items = << >>)]_vars

\* C15: after a restart nothing of the old thread remains: the agent
\* configuration and the mock conversation are empty, in the thread and in
\* the session, no input is pending and no interrupt answer is awaited.
C15_RestartTotal ==
    (last_op = "restart") =>
        /\ agent_config = NoneValue
        /\ mock_conversations = NoneValue
        /\ ~interrupts
        /\ ~pending_builder_input
        /\ ~builder_waiting_interrupt
        /\ st_agent_config = NoneValue
        /\ st_mock_conversations = << >>

(***************************************************************************)
(* Properties of the entrance agent and its chat (ChatSpec).               *)
(***************************************************************************)
\* C11: instantiation fails atomically: when create_agent_from_config
\* raises, no agent is installed, the agent installed before (if any) stays
\* installed with its chat, the failure is recorded in the builder
\* transcript, and the session goes on, ready for the next input.
C11_InstantiationAtomic ==
    [][/\ \A has_interrupt \in BOOLEAN :
             (StreamEnds(has_interrupt, FALSE) /\ created_from' # NoneValue) =>
                 builder_notice' = "failed"
       /\ builder_notice' = "failed" =>
             /\ created_from' # NoneValue
             /\ entrance_agent' = entrance_agent
             /\ entrance_messages' = entrance_messages
             /\ pc' = "idle"
             /\ ~pending_builder_input']_vars

\* a creation has failed while an agent built from another configuration
\* was installed and had a chat: agent and chat are still there
C11_Witness ==
    /\ builder_notice = "failed"
    /\ entrance_agent # NoneValue
    /\ entrance_agent.config # st_agent_config
    /\ entrance_messages # << >>

\* C12: the chat with the entrance agent is cleared in the step that
\* installs an agent built from a changed configuration, and it is kept at
\* the end of every turn for which change detection reports no change.
C12_ChatClearedOnChange ==
    [][/\ entrance_agent' # entrance_agent =>
             builder_notice' \in {"created", "updated"}
       /\ builder_notice' \in {"created", "updated"} =>
             /\ created_from' # NoneValue
             /\ entrance_agent'.config = agent_config
             /\ entrance_messages' = << >>
       /\ (last_op' \in {"complete", "interrupt"} /\ created_from' = NoneValue) =>
             /\ entrance_messages' = entrance_messages
             /\ entrance_agent' = entrance_agent]_vars

\* a turn has ended on an unchanged configuration and the chat with the
\* installed agent is still there
C12_Witness ==
    /\ last_op = "complete"
    /\ created_from = NoneValue
    /\ agent_config # NoneValue
    /\ st_agent_config = agent_config
    /\ entrance_agent # NoneValue
    /\ Len(entrance_messages) = 2

UpperLetters ==
    <<"A", "B", "C", "D", "E", "F", "G", "H", "I", "J", "K", "L", "M",
      "N", "O", "P", "Q", "R", "S", "T", "U", "V", "W", "X", "Y", "Z">>

LowerLetters ==
    <<"a", "b", "c", "d", "e", "f", "g", "h", "i", "j", "k", "l", "m",
      "n", "o", "p", "q", "r", "s", "t", "u", "v", "w", "x", "y", "z">>

Digits ==
    {"0", "1", "2", "3", "4", "5", "6", "7", "8", "9"}

\* the two characters of the localized greeting, a capital I with dot above
\* (whose lower case is i followed by a combining dot), the combining dot,
\* and the Kelvin sign (whose lower case is the ASCII k)
Ni == "U+4F60"
Hao == "U+597D"
CapitalIDot == "U+0130"
CombiningDot == "U+0307"
KelvinSign == "U+212A"

\* str.lower() of one character
LowerChar(c) ==
    IF \E i \in DOMAIN UpperLetters : UpperLetters[i] = c
    THEN <<LowerLetters[CHOOSE i \in DOMAIN UpperLetters : UpperLetters[i] = c]>>
    ELSE IF c = CapitalIDot THEN <<"i", CombiningDot>>
    ELSE IF c = KelvinSign THEN <<"k">>
    ELSE <<c>>

\* name.lower()
StrLower(name) ==
    Flatten([i \in DOMAIN name |-> LowerChar(name[i])])

\* ReplaceSpaces removing the spaces
DroppingSpaces(s) ==
    SelectSeq(s, LAMBDA c : c # " ")

\* .replace(" ", "_")
ReplaceSpaces(s) ==
    [i \in DOMAIN s |-> IF s[i] = " " THEN "_" ELSE s[i]]

\* the characters the pattern [^a-z0-9_-] does not match
AllowedCharacters ==
    Range(LowerLetters) \cup Digits \cup {"_", "-"}

\* RemoveDisallowed removing nothing
KeepEverything(s) ==
    s

\* re.sub(r'[^a-z0-9_-]', '', sanitized)
RemoveDisallowed(s) ==
    SelectSeq(s, LAMBDA c : c \in AllowedCharacters)

SkillPrefix ==
    <<"s", "k", "i", "l", "l", "_">>

SkillToolName ==
    <<"s", "k", "i", "l", "l", "_", "t", "o", "o", "l">>

\* sanitize_tool_name putting the prefix before every name
PrefixingSanitize(name) ==
    SkillPrefix \o SelectSeq([i \in DOMAIN StrLower(name) |->
                                 IF StrLower(name)[i] = " " THEN "_"
                                 ELSE StrLower(name)[i]],
                             LAMBDA c : c \in AllowedCharacters)

sanitize_tool_name(name) ==
    LET cleaned == RemoveDisallowed(ReplaceSpaces(StrLower(name)))
        sanitized == IF cleaned = << >> \/ cleaned[1] \in Digits
                     THEN SkillPrefix \o cleaned
                     ELSE cleaned
    IN  IF sanitized = << >> THEN SkillToolName ELSE sanitized

(***************************************************************************)
(* The sanitizer on its own: sanitize_tool_name applied to a name, then    *)
(* to its own result.                                                      *)
(***************************************************************************)
MaxNameLen == 3

NameAlphabet ==
    {"B", "o", "1", " ", "_", "-", "!", Ni, CapitalIDot}

BookARoom ==
    <<"B", "o", "o", "k", " ", "a", " ", "R", "o", "o", "m", "!">>

ExampleNames ==
    {BookARoom,
     <<"1", "2", "3", "a", "b", "c">>,
     <<Ni, Hao>>,
     <<KelvinSign>>,
     SkillPrefix,
     SkillToolName,
     <<"s", "e", "n", "d", "_", "s", "m", "s">>}

Names ==
    SeqsOver(NameAlphabet, 0, MaxNameLen) \cup ExampleNames

StrResult(value) ==
    [kind |-> "str", value |-> value]

SanitizeInit ==
    /\ candidate \in Names
    /\ agent_config = NoneValue
    /\ mock_conversations = NoneValue
    /\ interrupts = FALSE
    /\ pc = "idle"
    /\ last_op = "none"
    /\ last_input = NoneValue
    /\ last_result = NoResult
    /\ st_agent_config = NoneValue
    /\ st_mock_conversations = << >>
    /\ entrance_agent = NoneValue
    /\ builder_waiting_interrupt = FALSE
    /\ pending_builder_input = FALSE
    /\ created_from = NoneValue
    /\ builder_notice = "none"
    /\ entrance_messages = << >>
    /\ pending_entrance_input = FALSE

\* sanitize_tool_name(candidate)
SanitizeToolName ==
    /\ last_op = "none"
    /\ last_op' = "sanitize"
    /\ last_input' = StrResult(candidate)
    /\ last_result' = StrResult(sanitize_tool_name(candidate))
    /\ UNCHANGED <<agent_config, mock_conversations, interrupts, pc, SessionVars,
                   created_from, builder_notice, candidate>>

\* sanitize_tool_name applied to the name it returned
SanitizeAgain ==
    /\ last_op = "sanitize"
    /\ last_op' = "sanitize_again"
    /\ last_input' = last_result
    /\ last_result' = StrResult(sanitize_tool_name(last_result.value))
    /\ UNCHANGED <<agent_config, mock_conversations, interrupts, pc, SessionVars,
                   created_from, builder_notice, candidate>>

SanitizeNext ==
    \/ SanitizeToolName
    \/ SanitizeAgain

SanitizeSpec == SanitizeInit /\ [][SanitizeNext]_vars

(***************************************************************************)
(* Properties of the sanitizer (SanitizeSpec).                             *)
(***************************************************************************)
\* the characters of an identifier: a-z, 0-9, underscore and hyphen
IdentifierCharacters ==
    {LowerLetters[i] : i \in DOMAIN LowerLetters}
    \cup {"0", "1", "2", "3", "4", "5", "6", "7", "8", "9", "_", "-"}

\* the name lowercased, its spaces turned into underscores and every
\* character outside the identifier characters stripped, character by
\* character
RECURSIVE StrippedForm(_)
StrippedForm(name) ==
    IF name = << >> THEN << >>
    ELSE LET c == Head(name)
             rest == StrippedForm(Tail(name))
         IN  IF c = " " THEN <<"_">> \o rest
             ELSE IF c \in IdentifierCharacters THEN <<c>> \o rest
             ELSE IF \E i \in 1..26 : UpperLetters[i] = c
             THEN <<LowerLetters[CHOOSE i \in 1..26 : UpperLetters[i] = c]>> \o rest
             ELSE IF c = CapitalIDot THEN <<"i">> \o rest
             ELSE IF c = KelvinSign THEN <<"k">> \o rest
             ELSE rest

\* the characters of a name as one string
RECURSIVE Joined(_)
Joined(chars) ==
    IF chars = << >> THEN "" ELSE Head(chars) \o Joined(Tail(chars))

Sanitized ==
    last_op \in {"sanitize", "sanitize_again"}

\* C21: for every input string (empty, all digits, all non-ASCII and already
\* sanitized names included) the sanitizer returns a non-empty string whose
\* every character is in [a-z0-9_-].
C21_ResultIsIdentifier ==
    Sanitized =>
        /\ last_result.value # << >>
        /\ \A i \in DOMAIN last_result.value :
              last_result.value[i] \in IdentifierCharacters

\* a name of one non-ASCII character and one punctuation mark has been
\* sanitized into a non-empty identifier
C21_Witness ==
    /\ last_op = "sanitize"
    /\ candidate = <<Ni, "!">>
    /\ last_result.value # << >>

\* C22: the sanitizer is idempotent: applied to a name it returned, it
\* returns that name again, so that the identifier generated of one
\* configuration is the same at every instantiation.
C22_Idempotent ==
    /\ (last_op = "sanitize_again") => (last_result = last_input)
    /\ (last_op = "sanitize") =>
          sanitize_tool_name(last_result.value) = last_result.value

\* the name 123abc has been sanitized twice and both results are skill_123abc
C22_Witness ==
    /\ last_op = "sanitize_again"
    /\ candidate = <<"1", "2", "3", "a", "b", "c">>
    /\ Joined(last_input.value) = "skill_123abc"
    /\ Joined(last_result.value) = "skill_123abc"

\* C23: for every name that is empty after lowercasing, space replacement
\* and stripping (the empty string, a name of non-ASCII or punctuation
\* characters only) the sanitizer returns the literal skill_tool.
C23_EmptyFallsBackToSkillTool ==
    (last_op = "sanitize" /\ StrippedForm(candidate) = << >>) =>
        Joined(last_result.value) = "skill_tool"

\* C24: for every name whose stripped form r is not empty the sanitizer
\* returns skill_ followed by r when r begins with a digit and r otherwise;
\* "Book a Room!" gives book_a_room and "123abc" gives skill_123abc; no
\* result begins with a digit.
C24_PrefixOnlyBeforeDigit ==
    (last_op = "sanitize") =>
        LET r == StrippedForm(candidate)
        IN  /\ r # << >> =>
                  last_result.value =
                      IF r[1] \in Digits THEN SkillPrefix \o r ELSE r
            /\ last_result.value # << >>
            /\ last_result.value[1] \notin Digits
            /\ candidate = BookARoom => Joined(last_result.value) = "book_a_room"
            /\ candidate = <<"1", "2", "3", "a", "b", "c">> =>
                  Joined(last_result.value) = "skill_123abc"

\* "Book a Room!" has been sanitized into book_a_room
C24_Witness ==
    /\ last_op = "sanitize"
    /\ candidate = BookARoom
    /\ Joined(last_result.value) = "book_a_room"

(***************************************************************************)
(* create_agent_from_config (agent_single_create.py).  An agent is the     *)
(* list of the tools it was created with and its system prompt; a tool is  *)
(* its name and what it closes over.                                       *)
(***************************************************************************)
\* d.get(key, default)
Get(d, key, default) ==
    IF key \in DOMAIN d THEN d[key] ELSE default

\* create_mock_tool naming the tool by the name of the binding as it is
UnsanitizedMockTool(tool_name, tool_config) ==
    [name |-> tool_name, tool_name |-> tool_name, config |-> tool_config]

\* lines 73-94
create_mock_tool(tool_name, tool_config) ==
    [name |-> sanitize_tool_name(tool_name),
     tool_name |-> tool_name,
     config |-> tool_config]

\* lines 96-132
create_skill_agent_tool(skill_name, skill_when_to_use, skill_prompt, skill_tools_config) ==
    [name |-> sanitize_tool_name(skill_name),
     when_to_use |-> skill_when_to_use,
     skill_agent |->
        [tools |-> [i \in DOMAIN skill_tools_config |->
                       create_mock_tool(skill_tools_config[i].name,
                                        Get(skill_tools_config[i], "config", EmptyDict))],
         system_prompt |-> skill_prompt]]

\* skill.get("name") or tool_config.get("name") is None: sanitize_tool_name
\* raises AttributeError on None.lower()
NameMissing(skills) ==
    \E i \in DOMAIN skills :
        \/ "name" \notin DOMAIN skills[i]
        \/ \E j \in DOMAIN Get(skills[i], "tools", << >>) :
              "name" \notin DOMAIN skills[i].tools[j]

\* lines 55-164; config, the parameter agent_config, is an AgentConfig or a dict
create_agent_from_config(config) ==
    LET config_data == config.data
        skills == Get(config_data, "skills", << >>)
    IN  IF NameMissing(skills) THEN [kind |-> "AttributeError"]
        ELSE [kind |-> "agent",
              tools |-> [i \in DOMAIN skills |->
                            create_skill_agent_tool(
                                skills[i].name,
                                Get(skills[i], "when_to_use", NoneValue),
                                Get(skills[i], "prompt", NoneValue),
                                Get(skills[i], "tools", << >>))],
              system_prompt |-> Get(config_data, "system_prompt", NoneValue)]

(***************************************************************************)
(* The instantiation on its own: create_agent_from_config applied once to  *)
(* a validated AgentConfig or to a raw mapping.                            *)
(***************************************************************************)
SendSms ==
    <<"s", "e", "n", "d", "_", "s", "m", "s">>

ToolNames ==
    {SendSms,
     <<"S", "e", "n", "d", " ", "S", "M", "S">>,
     <<"a", "m", "a", "z", "o", "n">>,
     << >>,
     <<Ni, Hao>>}

ToolBindings ==
    {[name |-> n] : n \in ToolNames}
    \cup {[name |-> <<"g", "o", "o", "g", "l", "e", "_", "s", "h", "e", "e", "t">>,
           config |-> [sheet_id |-> "s1"]]}

SkillNames ==
    {<<"B", "o", "o", "k", "i", "n", "g">>,
     BookARoom,
     <<"1", "2", "3", "a", "b", "c">>,
     <<Ni, Hao>>}

\* the whole configurations: every skill name with every list of bindings
InstantiateConfigs ==
    {[HotelAgent EXCEPT !.skills =
          <<[name |-> n,
             when_to_use |-> BookingSkill.when_to_use,
             prompt |-> BookingSkill.prompt,
             tools |-> ts]>>] :
        n \in SkillNames, ts \in SeqsOver(ToolBindings, 0, MaxTools)}

\* raw mappings: nothing, the name only, a skill without tools, a skill
\* without a name
PartialConfigs ==
    {EmptyDict,
     [name |-> "Hotel Agent"],
     [skills |-> <<[name |-> SendSms]>>],
     [skills |-> <<[prompt |-> "Help the user book a room."]>>]}

InstantiateCandidates ==
    {AgentConfigObject(d) : d \in {c \in InstantiateConfigs : ~Raises(c)}}
    \cup {DictObject(d) : d \in PartialConfigs}

InstantiateInit ==
    /\ candidate \in InstantiateCandidates
    /\ agent_config = NoneValue
    /\ mock_conversations = NoneValue
    /\ interrupts = FALSE
    /\ pc = "idle"
    /\ last_op = "none"
    /\ last_input = NoneValue
    /\ last_result = NoResult
    /\ st_agent_config = NoneValue
    /\ st_mock_conversations = << >>
    /\ entrance_agent = NoneValue
    /\ builder_waiting_interrupt = FALSE
    /\ pending_builder_input = FALSE
    /\ created_from = NoneValue
    /\ builder_notice = "none"
    /\ entrance_messages = << >>
    /\ pending_entrance_input = FALSE

\* create_agent_from_config(candidate)
CreateAgentFromConfig ==
    /\ last_op = "none"
    /\ last_op' = "create"
    /\ last_input' = NoneValue
    /\ created_from' = candidate
    /\ last_result' = create_agent_from_config(candidate)
    /\ UNCHANGED <<agent_config, mock_conversations, interrupts, pc, SessionVars,
                   builder_notice, candidate>>

InstantiateNext ==
    CreateAgentFromConfig

InstantiateSpec == InstantiateInit /\ [][InstantiateNext]_vars

(***************************************************************************)
(* Properties of the instantiation (InstantiateSpec).                      *)
(***************************************************************************)
\* an agent has been created from a validated AgentConfig
CreatedFromValidated ==
    /\ last_op = "create"
    /\ candidate.kind = "AgentConfig"

\* C25: for a validated AgentConfig the outer agent exposes exactly one
\* action, named sanitize(skill.name), and the skill agent behind it exposes
\* exactly one mock action per declared binding, in declaration order, each
\* named sanitize(tool.name).
C25_OneActionPerSkillAndBinding ==
    CreatedFromValidated =>
        LET skill == candidate.data.skills[1]
        IN  /\ last_result.kind = "agent"
            /\ Len(last_result.tools) = 1
            /\ last_result.tools[1].name = sanitize_tool_name(skill.name)
            /\ Len(last_result.tools[1].skill_agent.tools) = Len(skill.tools)
            /\ \A i \in DOMAIN skill.tools :
                  /\ last_result.tools[1].skill_agent.tools[i].name =
                        sanitize_tool_name(skill.tools[i].name)
                  /\ last_result.tools[1].skill_agent.tools[i].tool_name =
                        skill.tools[i].name

\* an agent has been created for the skill "Book a Room!" with the bindings
\* "Send SMS" and amazon: its one action is book_a_room and the skill agent
\* has the actions send_sms and amazon, in this order
C25_Witness ==
    /\ CreatedFromValidated
    /\ candidate.data.skills[1].name = BookARoom
    /\ Len(candidate.data.skills[1].tools) = 2
    /\ Len(last_result.tools) = 1
    /\ Joined(last_result.tools[1].name) = "book_a_room"
    /\ Len(last_result.tools[1].skill_agent.tools) = 2
    /\ Joined(last_result.tools[1].skill_agent.tools[1].name) = "send_sms"
    /\ Joined(last_result.tools[1].skill_agent.tools[2].name) = "amazon"
    /\ candidate.data.skills[1].tools[1].name # SendSms

\* C30: two bindings of the skill whose names differ are never given the
\* same action name, so the skill agent never holds two mock actions under
\* one identifier.
C30_DistinctNamesDistinctActions ==
    CreatedFromValidated =>
        LET bindings == candidate.data.skills[1].tools
            actions == last_result.tools[1].skill_agent.tools
        IN  \A i, j \in DOMAIN bindings :
                bindings[i].name # bindings[j].name =>
                    actions[i].name # actions[j].name

(***************************************************************************)
(* The blank line in the parser (ParseSpec).                               *)
(***************************************************************************)
MarkerCount(lines) ==
    Cardinality({i \in DOMAIN lines : lines[i].t = "role"})

\* C26: a blank line closes the open turn and starts none: the non-marker
\* lines between a blank line and the next role-marker line are part of no
\* emitted turn, so every emitted turn begins at a role-marker line (it is
\* the turn of a labelled marker and of the lines up to the first blank or
\* marker line) and there are never more turns than role-marker lines.
C26_BlankClosesTurn ==
    Parsed =>
        /\ mock_conversations.items = TurnsOfMarkers(candidate, RoleLabels \ {""})
        /\ Len(mock_conversations.items) <= MarkerCount(candidate)

(***************************************************************************)
(* The variant of the stored configuration (StoreSpec).                    *)
(***************************************************************************)
\* C27: the tag of the stored value and its validity agree in every
\* reachable state: after any sequence of write and update operations the
\* store holds a raw mapping only if that mapping fails the schema, and an
\* AgentConfig only if its content satisfies every length and cardinality
\* constraint (exactly one skill).
C27_TagAgreesWithValidity ==
    /\ agent_config.kind = "dict" => ~SatisfiesSchema(agent_config.data)
    /\ agent_config.kind = "AgentConfig" => LengthsAndCardinality(agent_config.data)
    /\ agent_config.kind \in {"None", "dict", "AgentConfig"}

\* an update without the name has completed a stored raw mapping, which the
\* store now holds as an AgentConfig
C27_Witness ==
    /\ last_op = "update"
    /\ last_input # EmptyDict
    /\ "name" \notin DOMAIN last_input
    /\ "description" \notin DOMAIN last_input
    /\ agent_config.kind = "AgentConfig"
    /\ LengthsAndCardinality(agent_config.data)

(***************************************************************************)
(* The session against the thread and the installed agent (Spec).          *)
(***************************************************************************)
\* C28: the displayed configuration and the running agent never diverge:
\* whenever an entrance agent is installed it was instantiated from the
\* configuration the session holds as agent_config, also after an
\* instantiation attempt that failed.
C28_AgentMatchesConfig ==
    entrance_agent # NoneValue => entrance_agent.config = st_agent_config

\* C29: after every processed builder input, completed, suspended or failed,
\* the awaiting-interrupt flag of the session is true iff the thread has a
\* pending interrupt; so an input is sent as a resume command only to a
\* suspended thread and as a new message only to a thread not suspended.
C29_FlagMatchesInterrupt ==
    /\ last_op \in {"complete", "interrupt", "error"} =>
          (builder_waiting_interrupt <=> interrupts)
    /\ last_op = "resume" => interrupts
    /\ last_op = "process" => ~interrupts

====
